---------------------------- MODULE Spec2Model ----------------------------
(***************************************************************************)
(* Order placement of the e-commerce backend (src/main.py, src/schemas.py).*)
(*                                                                         *)
(* The store holds two collections, "product" and "order".  Every request  *)
(* handler is a sequence of store calls; each store call is one atomic     *)
(* step, and the steps of concurrent handlers interleave freely, since the *)
(* code takes no lock and opens no transaction.                            *)
(*                                                                         *)
(* Amounts are fixed-point decimals counted in thousandths of a currency   *)
(* unit (19.99 is 19990), so that a price may carry more than 2 decimals.  *)
(***************************************************************************)
EXTENDS Integers, Sequences, FiniteSets, TLC

(* ------------------------------ bounds -------------------------------- *)

\* Largest stock_qty a created product starts with.
MaxStock == 2

\* Largest quantity of one requested line item.
MaxQty == 2

\* Longest item list of a place-order request.
MaxItems == 2

\* Concurrent request handlers (workers).
Reqs == {1, 2}

(* --------------------------- identifiers ------------------------------ *)

\* An identifier string is modelled as <<form, n>>: "lower" is the canonical
\* 24-digit lower-case hex rendering of ObjectId n, "upper" the same digits
\* in upper case, "bad" a string that is not 24 hex digits.
\* The identifier strings clients send: the canonical strings of two
\* ObjectIds, the first also in upper case, and a malformed one.
CanonicalIds == {<<"lower", 1>>, <<"lower", 2>>}
IdStrings == CanonicalIds \cup {<<"upper", 1>>, <<"bad", 0>>}

\* ObjectId(s) raises unless s is 24 hex digits (either case).
ObjectIdValid(s) == s[1] \in {"lower", "upper"}

\* ObjectId(s): the parsed identifier.
ObjectId(s) == s[2]

\* str(oid): always the lower-case rendering.
Str(oid) == <<"lower", oid>>

\* order_id is None before create_document returned.
NoId == 0

(* ----------------------------- amounts -------------------------------- *)

\* round(x, 2) on a non-negative amount in thousandths: the nearest
\* multiple of 10, ties to the even hundredth (Python's round).
Round2(x) ==
    LET q == x \div 10
        rem == x % 10
    IN  IF rem < 5 THEN q * 10
        ELSE IF rem > 5 THEN (q + 1) * 10
        ELSE IF q % 2 = 0 THEN q * 10 ELSE (q + 1) * 10

(* ----------------------------- documents ------------------------------ *)

\* Product documents a client can create (schemas.Product: price >= 0,
\* stock_qty >= 0), from a catalogue of titles.
ProductPayloads(catalogue) ==
    { [title |-> c.title, description |-> c.description, price |-> c.price,
       category |-> c.category, image |-> c.image,
       in_stock |-> s, stock_qty |-> n] :
         c \in catalogue, s \in BOOLEAN, n \in 0..MaxStock }

Tee ==
    [title |-> "Classic Tee", description |-> "Soft cotton t-shirt",
     price |-> 19990, category |-> "Apparel", image |-> "tee.jpg"]

\* A product priced below a cent.
Sticker ==
    [title |-> "Sticker", description |-> "None",
     price |-> 4, category |-> "Accessories", image |-> "None"]

\* What a client may put in the fields of a place-order request that the
\* server is meant to ignore: line-item title/price/image, subtotal, total
\* and status.
Honest ==
    [title |-> "Classic Tee", price |-> 19990, image |-> "tee.jpg",
     subtotal |-> 19990, total |-> 19990, status |-> "processing"]

Tampered ==
    [title |-> "Free", price |-> 0, image |-> "None",
     subtotal |-> 0, total |-> 0, status |-> "delivered"]

\* A requested line item (schemas.OrderItem: quantity >= 1).
ClientItem(pid, q, c) ==
    [product_id |-> pid, title |-> c.title, price |-> c.price,
     quantity |-> q, image |-> c.image]

\* The line items a client can send.
ClientItems(ids, claims) ==
    { ClientItem(pid, q, c) : pid \in ids, q \in 1..MaxQty, c \in claims }

\* CreateOrderRequest bodies that pass schema validation (shipping >= 0),
\* without their item list: the handler reads the items one by one, and an
\* item it has not read yet influences nothing, so each item is drawn when
\* the loop reaches it and request.items holds the items read so far.
OrderPayloads(claims, shippings) ==
    { [customer_name |-> "Ann", customer_email |-> "ann@example.com",
       customer_address |-> "1 Main St", items |-> <<>>,
       subtotal |-> c.subtotal, shipping |-> s, total |-> c.total,
       status |-> c.status] : c \in claims, s \in shippings }

\* Values of the loop variables item and prod outside the loop body.
NoItem ==
    [product_id |-> <<"bad", 0>>, title |-> "None", price |-> 0,
     quantity |-> 0, image |-> "None"]

NoProduct ==
    [title |-> "None", description |-> "None", price |-> 0,
     category |-> "None", image |-> "None", in_stock |-> FALSE, stock_qty |-> 0]

NoRequest ==
    [customer_name |-> "None", customer_email |-> "None",
     customer_address |-> "None", items |-> <<>>, subtotal |-> 0,
     shipping |-> 0, total |-> 0, status |-> "None"]

\* HTTP outcome of a handler.
NoResponse == [status |-> 0, detail |-> "None"]
Ok == [status |-> 200, detail |-> "OK"]
NoItems == [status |-> 400, detail |-> "No items in order"]
InvalidId == [status |-> 400, detail |-> "Invalid product id"]
ProductNotFound == [status |-> 404, detail |-> "Product not found"]
InsufficientStock == [status |-> 400, detail |-> "Insufficient stock"]
PersistenceError == [status |-> 500, detail |-> "Internal Server Error"]

ValidationErrors == {NoItems, InvalidId, ProductNotFound, InsufficientStock}

\* serialize_doc(doc): _id leaves and comes back as "id", the string of the
\* ObjectId; every other field passes through.
SerializeDoc(oid, doc) ==
    [id |-> Str(oid), title |-> doc.title, description |-> doc.description,
     price |-> doc.price, category |-> doc.category, image |-> doc.image,
     in_stock |-> doc.in_stock, stock_qty |-> doc.stock_qty]

\* Body of a response that carries no product.
NoBody == SerializeDoc(NoId, NoProduct)

\* get_product's exchange: the path parameter, and status, detail and body
\* of the response.
Lookup(s, outcome, body) ==
    [product_id |-> s, status |-> outcome.status, detail |-> outcome.detail,
     body |-> body]

NoLookup == Lookup(<<"bad", 0>>, NoResponse, NoBody)

(* ------------------------------- state -------------------------------- *)

VARIABLES
    product,            \* db["product"]: ObjectId -> document
    order,              \* db["order"]: sequence of documents, _id = index
    pc,                 \* per handler: position in create_order
    request,            \* per handler: the CreateOrderRequest being served
    n_items,            \* per handler: len(order.items) of that request
    idx,                \* per handler: lines of order.items validated
    item,               \* per handler: the line the loop body is working on
    prod,               \* per handler: the product find_one returned for it
    computed_subtotal,  \* per handler: running unrounded sum
    sanitized_items,    \* per handler: line items built so far
    order_id,           \* per handler: id returned by create_document
    dec_idx,            \* per handler: lines of sanitized_items decremented
    response,           \* per handler: outcome of the last request
    stock_read,         \* per handler: stock_qty found for each validated line
    placed,             \* history, per order: the request body it came from
    seen,               \* history, per order: stock_read of its request
    applied,            \* history, per order: lines whose decrement ran
    stocked,            \* history, per product: stock_qty it was created with
    creating,           \* create_product: new_id between insert and re-read
    created,            \* per product: the response create_product returned
    sold_then,          \* history, per product: units sold when that response was read
    fetched             \* get_product: the last path parameter and its response

vars == <<product, order, pc, request, n_items, idx, item, prod,
          computed_subtotal, sanitized_items, order_id, dec_idx, response,
          stock_read, placed, seen, applied, stocked,
          creating, created, sold_then, fetched>>

store == <<product, order>>

history == <<placed, seen, applied, stocked>>

\* What the product endpoints keep: create_product's position and
\* responses, get_product's last exchange.
catalogue == <<creating, created, sold_then, fetched>>

InFlight == {r \in Reqs : pc[r] \notin {"idle", "done"}}

(* ------------------------------ the store ----------------------------- *)

\* create_document("product", payload): the store assigns the next id.
InsertProduct(prods, payload) ==
    LET new_id == Cardinality(DOMAIN prods) + 1
    IN  [o \in DOMAIN prods \cup {new_id} |->
            IF o = new_id THEN payload ELSE prods[o]]

\* An update that takes one unit whatever the quantity.
IncStockByOne(prods, oid, quantity) ==
    IF oid \in DOMAIN prods
    THEN [prods EXCEPT ![oid].stock_qty = @ - 1]
    ELSE prods

\* A conditional update ({"_id": oid, "stock_qty": {"$gte": quantity}}) in
\* place of the unconditional one.
IncStockGuarded(prods, oid, quantity) ==
    IF oid \in DOMAIN prods /\ prods[oid].stock_qty >= quantity
    THEN [prods EXCEPT ![oid].stock_qty = @ - quantity]
    ELSE prods

\* An update that also clears the in_stock flag when no unit is left.
IncStockFlagging(prods, oid, quantity) ==
    IF oid \in DOMAIN prods
    THEN [prods EXCEPT ![oid].stock_qty = @ - quantity,
                       ![oid].in_stock = @ /\ prods[oid].stock_qty > quantity]
    ELSE prods

\* update_one({"_id": oid}, {"$inc": {"stock_qty": -quantity}}): one atomic,
\* unconditional store operation; a missing document is left missing.
IncStock(prods, oid, quantity) ==
    IF oid \in DOMAIN prods
    THEN [prods EXCEPT ![oid].stock_qty = @ - quantity]
    ELSE prods

(* ----------------------------- accounting ---------------------------- *)

OrderIds == 1..Len(order)

\* The product a sanitized line item refers to.
LineOid(it) == ObjectId(it.product_id)

\* Units of product oid in the first k lines of items.
RECURSIVE QtyFor(_, _, _)
QtyFor(items, oid, k) ==
    IF k = 0 THEN 0
    ELSE QtyFor(items, oid, k - 1)
         + (IF LineOid(items[k]) = oid THEN items[k].quantity ELSE 0)

\* Units of product oid decremented on behalf of the first o orders.
RECURSIVE SoldOf(_, _)
SoldOf(oid, o) ==
    IF o = 0 THEN 0
    ELSE SoldOf(oid, o - 1) + QtyFor(order[o].items, oid, applied[o])

(* --------------------------- create_product --------------------------- *)

\* create_product with nothing between its two store calls: the document is
\* inserted, read back and returned.
\* ids: the ObjectIds the store can still assign.
CreateProduct(payloads, ids) ==
    /\ creating = NoId
    /\ Cardinality(DOMAIN product) + 1 \in ids
    /\ \E payload \in payloads :
          /\ product' = InsertProduct(product, payload)
          /\ stocked' = Append(stocked, payload.stock_qty)
          /\ created' = Append(created,
                               SerializeDoc(Cardinality(DOMAIN product) + 1, payload))
    /\ sold_then' = Append(sold_then, 0)
    /\ UNCHANGED <<order, pc, request, n_items, idx, item, prod,
                   computed_subtotal, sanitized_items, order_id, dec_idx,
                   response, stock_read, placed, seen, applied,
                   creating, fetched>>

\* create_product, first store call: create_document("product", payload)
\* inserts the document and returns its id.
InsertNewProduct(payloads, ids) ==
    /\ creating = NoId
    /\ Cardinality(DOMAIN product) + 1 \in ids
    /\ \E payload \in payloads :
          /\ product' = InsertProduct(product, payload)
          /\ stocked' = Append(stocked, payload.stock_qty)
    /\ creating' = Cardinality(DOMAIN product) + 1
    /\ UNCHANGED <<order, pc, request, n_items, idx, item, prod,
                   computed_subtotal, sanitized_items, order_id, dec_idx,
                   response, stock_read, placed, seen, applied,
                   created, sold_then, fetched>>

\* A create_product that answers with the payload it was sent instead of
\* the document it reads back.
ReturnNewProductStale ==
    /\ creating # NoId
    /\ created' = Append(created,
                         SerializeDoc(creating,
                            [product[creating] EXCEPT !.stock_qty = stocked[creating]]))
    /\ sold_then' = Append(sold_then, SoldOf(creating, Len(order)))
    /\ creating' = NoId
    /\ UNCHANGED <<store, pc, request, n_items, idx, item, prod,
                   computed_subtotal, sanitized_items, order_id, dec_idx,
                   response, stock_read, history, fetched>>

\* create_product, second store call: the document is read back by its id
\* and returned serialized.
ReturnNewProduct ==
    /\ creating # NoId
    /\ created' = Append(created, SerializeDoc(creating, product[creating]))
    /\ sold_then' = Append(sold_then, SoldOf(creating, Len(order)))
    /\ creating' = NoId
    /\ UNCHANGED <<store, pc, request, n_items, idx, item, prod,
                   computed_subtotal, sanitized_items, order_id, dec_idx,
                   response, stock_read, history, fetched>>

(* ----------------------------- get_product ---------------------------- *)

\* A lookup that answers a malformed identifier like an unknown one.
GetProductLenient(ids) ==
    /\ \E s \in ids :
          fetched' =
             IF ~ObjectIdValid(s) \/ ObjectId(s) \notin DOMAIN product
             THEN Lookup(s, ProductNotFound, NoBody)
             ELSE Lookup(s, Ok, SerializeDoc(ObjectId(s), product[ObjectId(s)]))
    /\ UNCHANGED <<store, pc, request, n_items, idx, item, prod,
                   computed_subtotal, sanitized_items, order_id, dec_idx,
                   response, stock_read, history, creating, created, sold_then>>

\* get_product(product_id): parse the id, one find_one, answer.
GetProduct(ids) ==
    /\ \E s \in ids :
          fetched' =
             IF ~ObjectIdValid(s)
             THEN Lookup(s, InvalidId, NoBody)
             ELSE IF ObjectId(s) \notin DOMAIN product
             THEN Lookup(s, ProductNotFound, NoBody)
             ELSE Lookup(s, Ok, SerializeDoc(ObjectId(s), product[ObjectId(s)]))
    /\ UNCHANGED <<store, pc, request, n_items, idx, item, prod,
                   computed_subtotal, sanitized_items, order_id, dec_idx,
                   response, stock_read, history, creating, created, sold_then>>

(* ---------------------------- create_order ---------------------------- *)

\* The handler returns or raises: its request and working values are gone;
\* the outcome stays visible to the client, and idx stays as the record of
\* how many lines had passed validation.
Return(r, outcome) ==
    /\ pc' = [pc EXCEPT ![r] = "done"]
    /\ response' = [response EXCEPT ![r] = outcome]
    /\ request' = [request EXCEPT ![r] = NoRequest]
    /\ n_items' = [n_items EXCEPT ![r] = 0]
    /\ item' = [item EXCEPT ![r] = NoItem]
    /\ prod' = [prod EXCEPT ![r] = NoProduct]
    /\ computed_subtotal' = [computed_subtotal EXCEPT ![r] = 0]
    /\ sanitized_items' = [sanitized_items EXCEPT ![r] = <<>>]
    /\ order_id' = [order_id EXCEPT ![r] = NoId]
    /\ dec_idx' = [dec_idx EXCEPT ![r] = 0]
    /\ stock_read' = [stock_read EXCEPT ![r] = <<>>]

\* A request arrives at a free handler; an empty item list is rejected
\* before any store call.
\* oids: the ObjectIds the store can still assign to orders; a request is
\* received only while one is left for it.
Receive(r, bodies, oids) ==
    /\ pc[r] \in {"idle", "done"}
    /\ Len(order) + Cardinality(InFlight) + 1 \in oids
    /\ \E body \in bodies, n \in 0..MaxItems :
          IF n = 0
          THEN Return(r, NoItems)
          ELSE /\ pc' = [pc EXCEPT ![r] = "validate"]
               /\ response' = [response EXCEPT ![r] = NoResponse]
               /\ request' = [request EXCEPT ![r] = body]
               /\ n_items' = [n_items EXCEPT ![r] = n]
               /\ item' = [item EXCEPT ![r] = NoItem]
               /\ prod' = [prod EXCEPT ![r] = NoProduct]
               /\ computed_subtotal' = [computed_subtotal EXCEPT ![r] = 0]
               /\ sanitized_items' = [sanitized_items EXCEPT ![r] = <<>>]
               /\ order_id' = [order_id EXCEPT ![r] = NoId]
               /\ dec_idx' = [dec_idx EXCEPT ![r] = 0]
               /\ stock_read' = [stock_read EXCEPT ![r] = <<>>]
    /\ idx' = [idx EXCEPT ![r] = 0]
    /\ UNCHANGED <<store, history, catalogue>>

\* First half of the loop body: the next line is read from the request, its
\* id parsed and the product looked up.
FindProduct(r, lines) ==
    /\ pc[r] = "validate"
    /\ \E it \in lines :
          IF ~ObjectIdValid(it.product_id)
          THEN Return(r, InvalidId) /\ UNCHANGED idx
          ELSE IF ObjectId(it.product_id) \notin DOMAIN product
          THEN Return(r, ProductNotFound) /\ UNCHANGED idx
          ELSE /\ item' = [item EXCEPT ![r] = it]
               /\ prod' = [prod EXCEPT ![r] = product[ObjectId(it.product_id)]]
               /\ pc' = [pc EXCEPT ![r] = "check"]
               /\ UNCHANGED <<request, n_items, idx, computed_subtotal,
                              sanitized_items, order_id, dec_idx, response,
                              stock_read>>
    /\ UNCHANGED <<store, history, catalogue>>

\* The stock check without the in_stock flag.
AvailableByQuantity(p, quantity) == ~(p.stock_qty < quantity)

\* The stock check on the product as it was read.
Available(p, quantity) == p.in_stock /\ ~(p.stock_qty < quantity)

\* A line item that keeps the title, price and image the client sent.
SanitizeTrusting(oid, p, it) ==
    [product_id |-> Str(oid), title |-> it.title, price |-> it.price,
     quantity |-> it.quantity, image |-> it.image]

\* The sanitized line item: title, price and image come from the product,
\* the id is the product's own, rendered by str.
\* A line item built with the schema's smallest quantity instead of the
\* requested one.
SanitizeUnit(oid, p, it) ==
    [product_id |-> Str(oid), title |-> p.title, price |-> p.price,
     quantity |-> 1, image |-> p.image]

Sanitize(oid, p, it) ==
    [product_id |-> Str(oid), title |-> p.title, price |-> p.price,
     quantity |-> it.quantity, image |-> p.image]

\* The line passed: accumulate the subtotal, append the sanitized item, go
\* on to the next line or leave the loop.
AcceptLine(r) ==
    /\ request' = [request EXCEPT ![r].items = Append(@, item[r])]
    /\ computed_subtotal' =
          [computed_subtotal EXCEPT ![r] = @ + prod[r].price * item[r].quantity]
    /\ sanitized_items' =
          [sanitized_items EXCEPT ![r] =
              Append(@, Sanitize(ObjectId(item[r].product_id), prod[r], item[r]))]
    /\ stock_read' = [stock_read EXCEPT ![r] = Append(@, prod[r].stock_qty)]
    /\ idx' = [idx EXCEPT ![r] = @ + 1]
    /\ item' = [item EXCEPT ![r] = NoItem]
    /\ prod' = [prod EXCEPT ![r] = NoProduct]
    /\ pc' = [pc EXCEPT ![r] =
                IF idx[r] + 1 = n_items[r] THEN "persist" ELSE "validate"]
    /\ UNCHANGED <<n_items, response, order_id, dec_idx>>

\* A loop body that reserves the stock of each line as soon as it passes.
CheckStockReserving(r) ==
    /\ pc[r] = "check"
    /\ IF ~Available(prod[r], item[r].quantity)
       THEN Return(r, InsufficientStock) /\ UNCHANGED <<idx, product>>
       ELSE /\ AcceptLine(r)
            /\ product' = [product EXCEPT
                  ![ObjectId(item[r].product_id)].stock_qty = @ - item[r].quantity]
    /\ UNCHANGED <<order, history, catalogue>>

\* Second half of the loop body: check availability, accumulate, append.
CheckStock(r) ==
    /\ pc[r] = "check"
    /\ IF ~Available(prod[r], item[r].quantity)
       THEN Return(r, InsufficientStock) /\ UNCHANGED idx
       ELSE AcceptLine(r)
    /\ UNCHANGED <<store, history, catalogue>>

\* An order document that stores the running sum as it is.
OrderDocUnrounded(body, items, subtotal) ==
    [customer_name |-> body.customer_name,
     customer_email |-> body.customer_email,
     customer_address |-> body.customer_address,
     items |-> items,
     subtotal |-> subtotal,
     shipping |-> Round2(body.shipping),
     total |-> Round2(subtotal + body.shipping),
     status |-> "processing"]

\* The order document built after the loop.
OrderDoc(body, items, subtotal) ==
    [customer_name |-> body.customer_name,
     customer_email |-> body.customer_email,
     customer_address |-> body.customer_address,
     items |-> items,
     subtotal |-> Round2(subtotal),
     shipping |-> Round2(body.shipping),
     total |-> Round2(subtotal + body.shipping),
     status |-> "processing"]

\* create_document("order", order_doc) succeeds.
PersistOrder(r) ==
    /\ pc[r] = "persist"
    /\ order' = Append(order, OrderDoc(request[r], sanitized_items[r], computed_subtotal[r]))
    /\ placed' = Append(placed, request[r])
    /\ seen' = Append(seen, stock_read[r])
    /\ applied' = Append(applied, 0)
    /\ order_id' = [order_id EXCEPT ![r] = Len(order) + 1]
    /\ pc' = [pc EXCEPT ![r] = "decrement"]
    /\ UNCHANGED <<product, request, n_items, idx, item, prod,
                   computed_subtotal, sanitized_items, dec_idx, response,
                   stock_read, stocked, catalogue>>

\* A decrement written as read-modify-write: the stock found at validation
\* minus the quantity is written back.
DecrementStockFromRead(r) ==
    /\ pc[r] = "decrement"
    /\ LET it == sanitized_items[r][dec_idx[r] + 1]
       IN  product' = [product EXCEPT ![ObjectId(it.product_id)].stock_qty =
                          stock_read[r][dec_idx[r] + 1] - it.quantity]
    /\ dec_idx' = [dec_idx EXCEPT ![r] = @ + 1]
    /\ applied' = [applied EXCEPT ![order_id[r]] = @ + 1]
    /\ pc' = [pc EXCEPT ![r] =
                IF dec_idx[r] + 1 = Len(sanitized_items[r]) THEN "reread" ELSE "decrement"]
    /\ UNCHANGED <<order, request, n_items, idx, item, prod,
                   computed_subtotal, sanitized_items, order_id, response,
                   stock_read, placed, seen, stocked, catalogue>>

\* One pass of the decrement loop.
DecrementStock(r) ==
    /\ pc[r] = "decrement"
    /\ LET it == sanitized_items[r][dec_idx[r] + 1]
       IN  product' = IncStock(product, ObjectId(it.product_id), it.quantity)
    /\ dec_idx' = [dec_idx EXCEPT ![r] = @ + 1]
    /\ applied' = [applied EXCEPT ![order_id[r]] = @ + 1]
    /\ pc' = [pc EXCEPT ![r] =
                IF dec_idx[r] + 1 = Len(sanitized_items[r]) THEN "reread" ELSE "decrement"]
    /\ UNCHANGED <<order, request, n_items, idx, item, prod,
                   computed_subtotal, sanitized_items, order_id, response,
                   stock_read, placed, seen, stocked, catalogue>>

\* A handler that marks the order confirmed once its stock is decremented.
ReturnCreatedConfirming(r) ==
    /\ pc[r] = "reread"
    /\ order_id[r] \in 1..Len(order)
    /\ order' = [order EXCEPT ![order_id[r]].status = "confirmed"]
    /\ Return(r, Ok)
    /\ UNCHANGED <<product, idx, history, catalogue>>

\* The created order is read back and returned.
ReturnCreated(r) ==
    /\ pc[r] = "reread"
    /\ order_id[r] \in 1..Len(order)
    /\ Return(r, Ok)
    /\ UNCHANGED <<store, idx, history, catalogue>>

\* A store whose failing write has taken effect before the call raises: the
\* order document is inserted, or the line's stock decremented, and the
\* handler still sees an exception.
StoreFailsAfterWrite(r) ==
    /\ pc[r] \in {"validate", "persist", "decrement", "reread"}
    /\ Return(r, PersistenceError)
    /\ IF pc[r] = "persist"
       THEN /\ order' = Append(order, OrderDoc(request[r], sanitized_items[r],
                                               computed_subtotal[r]))
            /\ placed' = Append(placed, request[r])
            /\ seen' = Append(seen, stock_read[r])
            /\ applied' = Append(applied, 0)
            /\ UNCHANGED <<product, stocked>>
       ELSE IF pc[r] = "decrement"
       THEN /\ product' = IncStock(product,
                                   ObjectId(sanitized_items[r][dec_idx[r] + 1].product_id),
                                   sanitized_items[r][dec_idx[r] + 1].quantity)
            /\ UNCHANGED <<order, history>>
       ELSE UNCHANGED <<store, history>>
    /\ UNCHANGED <<idx, catalogue>>

\* The store call the handler is about to make raises (store unreachable,
\* write failure): create_order catches nothing, so the request ends in an
\* error where it stands.
StoreFails(r) ==
    /\ pc[r] \in {"validate", "persist", "decrement", "reread"}
    /\ Return(r, PersistenceError)
    /\ UNCHANGED <<store, idx, history, catalogue>>

(* --------------------------- specification ---------------------------- *)

Init ==
    /\ product = << >>
    /\ order = <<>>
    /\ pc = [r \in Reqs |-> "idle"]
    /\ request = [r \in Reqs |-> NoRequest]
    /\ n_items = [r \in Reqs |-> 0]
    /\ idx = [r \in Reqs |-> 0]
    /\ item = [r \in Reqs |-> NoItem]
    /\ prod = [r \in Reqs |-> NoProduct]
    /\ computed_subtotal = [r \in Reqs |-> 0]
    /\ sanitized_items = [r \in Reqs |-> <<>>]
    /\ order_id = [r \in Reqs |-> NoId]
    /\ dec_idx = [r \in Reqs |-> 0]
    /\ response = [r \in Reqs |-> NoResponse]
    /\ stock_read = [r \in Reqs |-> <<>>]
    /\ placed = <<>>
    /\ seen = <<>>
    /\ applied = <<>>
    /\ stocked = <<>>
    /\ creating = NoId
    /\ created = <<>>
    /\ sold_then = <<>>
    /\ fetched = NoLookup

\* Concurrent handlers and one product: honest client fields, free shipping.
\* The second ObjectId is never assigned, so its string names no product.
LeanProducts == ProductPayloads({Tee})
LeanOrders == OrderPayloads({Honest}, {0})
LeanLines == ClientItems(CanonicalIds \cup {<<"bad", 0>>}, {Honest})

Next ==
    \/ CreateProduct(LeanProducts, {1})
    \/ \E r \in Reqs : Receive(r, LeanOrders, {1, 2})
    \/ \E r \in Reqs : FindProduct(r, LeanLines)
    \/ \E r \in Reqs : CheckStock(r)
    \/ \E r \in Reqs : PersistOrder(r)
    \/ \E r \in Reqs : DecrementStock(r)
    \/ \E r \in Reqs : ReturnCreated(r)
    \/ \E r \in Reqs : StoreFails(r)

Spec == Init /\ [][Next]_vars

\* One handler, one order, two products: line items that claim a price of 0 and another
\* title, request totals and status honest or not, shipping with a third
\* decimal, a product priced below a cent, identifier strings in either case.
WideProducts ==
    {p \in ProductPayloads({Tee, Sticker}) : p.in_stock /\ p.stock_qty >= MaxStock - 1}
WideOrders == OrderPayloads({Honest, Tampered}, {0, 4})
WideLines == ClientItems(IdStrings, {Tampered})

NextWide ==
    \/ CreateProduct(WideProducts, {1, 2})
    \/ \E r \in {1} : Receive(r, WideOrders, {1})
    \/ \E r \in {1} : FindProduct(r, WideLines)
    \/ \E r \in {1} : CheckStock(r)
    \/ \E r \in {1} : PersistOrder(r)
    \/ \E r \in {1} : DecrementStock(r)
    \/ \E r \in {1} : ReturnCreated(r)
    \/ \E r \in {1} : StoreFails(r)

SpecWide == Init /\ [][NextWide]_vars

\* Concurrent handlers and one product as in Spec, every store call
\* succeeding.
NextReliable ==
    \/ CreateProduct(LeanProducts, {1})
    \/ \E r \in Reqs : Receive(r, LeanOrders, {1, 2})
    \/ \E r \in Reqs : FindProduct(r, LeanLines)
    \/ \E r \in Reqs : CheckStock(r)
    \/ \E r \in Reqs : PersistOrder(r)
    \/ \E r \in Reqs : DecrementStock(r)
    \/ \E r \in Reqs : ReturnCreated(r)

SpecReliable == Init /\ [][NextReliable]_vars

\* The product endpoints next to one order handler, every store call a
\* step of its own and every store call succeeding: two products, looked
\* up under identifier strings of every form.
CatalogueLines == ClientItems(CanonicalIds, {Honest})

NextCatalogue ==
    \/ InsertNewProduct(LeanProducts, {1, 2})
    \/ ReturnNewProduct
    \/ GetProduct(IdStrings)
    \/ \E r \in {1} : Receive(r, LeanOrders, {1})
    \/ \E r \in {1} : FindProduct(r, CatalogueLines)
    \/ \E r \in {1} : CheckStock(r)
    \/ \E r \in {1} : PersistOrder(r)
    \/ \E r \in {1} : DecrementStock(r)
    \/ \E r \in {1} : ReturnCreated(r)

SpecCatalogue == Init /\ [][NextCatalogue]_vars

(* ------------------------------ claims -------------------------------- *)

\* C1: in every reachable state every product's stock_qty is >= 0.
StockNeverNegative ==
    \A oid \in DOMAIN product : product[oid].stock_qty >= 0

\* Orders o1 and o2 are single-line orders for the same product whose
\* requests both read stock S at the stock check, each asking no more than
\* S and together more than S, and both decrements have run.
Raced(o1, o2) ==
    /\ o1 # o2
    /\ Len(order[o1].items) = 1 /\ Len(order[o2].items) = 1
    /\ LineOid(order[o1].items[1]) = LineOid(order[o2].items[1])
    /\ seen[o1][1] = seen[o2][1]
    /\ order[o1].items[1].quantity <= seen[o1][1]
    /\ order[o2].items[1].quantity <= seen[o2][1]
    /\ order[o1].items[1].quantity + order[o2].items[1].quantity > seen[o1][1]
    /\ applied[o1] = 1 /\ applied[o2] = 1

\* C2: whenever two place-order requests for the same product have both
\* passed the stock check on the same stock S before either decremented,
\* each within S and together above it, both orders are persisted and, once
\* both decrements have run, the stock is at most S minus both quantities:
\* below zero, more units sold than were in stock.
OversellWhenRaced ==
    \A o1, o2 \in OrderIds :
        Raced(o1, o2) =>
            LET oid == LineOid(order[o1].items[1])
                sold == order[o1].items[1].quantity + order[o2].items[1].quantity
            IN  /\ product[oid].stock_qty <= seen[o1][1] - sold
                /\ product[oid].stock_qty < 0

\* Such a race has happened and both requests were answered 200.
OversellReached ==
    /\ \E o1, o2 \in OrderIds : Raced(o1, o2)
    /\ \A r \in Reqs : pc[r] = "done" /\ response[r] = Ok

\* Handler r takes a step.
StepOf(r) ==
    \/ pc'[r] # pc[r]
    \/ idx'[r] # idx[r]
    \/ response'[r] # response[r]
    \/ item'[r] # item[r]

\* Positions of create_order before create_document is called.
PreCommit == {"idle", "done", "validate", "check"}

\* Handler r ends its request with a validation error.
Rejected(r) ==
    StepOf(r) /\ pc'[r] = "done" /\ response'[r] \in ValidationErrors

\* C3: a place-order request that fails validation (empty list, malformed
\* id, unknown id, unavailable or insufficient stock on any line) ends in a
\* 400 or 404 and has performed no store write: the rejecting step and
\* every step the request took before it leave both collections unchanged.
RejectedWritesNothing ==
    [][\A r \in Reqs :
          /\ Rejected(r) => pc[r] \in PreCommit /\ response'[r].status \in {400, 404}
          /\ StepOf(r) /\ pc[r] \in PreCommit => UNCHANGED store]_vars

\* A request was rejected for stock on a later line, after a line passed.
RejectedAfterPass ==
    \E r \in Reqs :
        pc[r] = "done" /\ response[r] = InsufficientStock /\ idx[r] >= 1

\* C4: a line whose id is well-formed and present is rejected with
\* InsufficientStock (400) exactly when the product, as find_one returned
\* it for that line, has in_stock false or stock_qty below the requested
\* quantity, and the rejection leaves the store unchanged; otherwise the
\* line passes, and after the last line the request goes on to be persisted.
StockCheckDecides ==
    [][\A r \in Reqs :
          /\ pc[r] = "validate" /\ pc'[r] = "check" =>
                prod'[r] = product[ObjectId(item'[r].product_id)]
          /\ pc[r] = "check" /\ pc'[r] # "check" =>
                IF ~prod[r].in_stock \/ prod[r].stock_qty < item[r].quantity
                THEN /\ pc'[r] = "done"
                     /\ response'[r] = InsufficientStock
                     /\ response'[r].status = 400
                     /\ UNCHANGED store
                ELSE /\ response'[r] = NoResponse
                     /\ idx'[r] = idx[r] + 1
                     /\ pc'[r] = IF idx'[r] = n_items[r] THEN "persist" ELSE "validate"
          /\ response'[r] = InsufficientStock /\ StepOf(r) => pc[r] = "check"]_vars

\* A request was rejected though the product held enough units: the
\* in_stock flag alone decided.
RejectedByFlag ==
    \E r \in Reqs :
        /\ pc[r] = "done" /\ response[r] = InsufficientStock
        /\ \A oid \in DOMAIN product :
              ~product[oid].in_stock /\ product[oid].stock_qty >= MaxQty

\* C5: after a request answered 200 with nothing interleaved, every product
\* it ordered holds the stock the request read for it minus the quantities
\* the request ordered of it; for a single line of quantity Q read at stock
\* S that is exactly S - Q.
StockAfterOrder ==
    \A r \in Reqs :
        pc[r] = "done" /\ response[r] = Ok =>
            LET items == order[Len(order)].items
            IN  \A j \in 1..Len(items) :
                    product[LineOid(items[j])].stock_qty =
                        seen[Len(order)][j] - QtyFor(items, LineOid(items[j]), Len(items))

\* A single line of quantity 1 against a full stock was answered 200.
OrderedOneOfFull ==
    \E r \in Reqs :
        /\ pc[r] = "done" /\ response[r] = Ok
        /\ Len(order[1].items) = 1
        /\ order[1].items[1].quantity = 1
        /\ seen[1][1] = MaxStock
        /\ product[LineOid(order[1].items[1])].stock_qty = MaxStock - 1

\* C6: every persisted order has total = round(subtotal + shipping, 2) on
\* the subtotal and shipping stored in it.
TotalOfStoredAmounts ==
    \A o \in OrderIds :
        order[o].total = Round2(order[o].subtotal + order[o].shipping)

\* Exact sum of price x quantity over the first k lines of items.
RECURSIVE LineSum(_, _)
LineSum(items, k) ==
    IF k = 0 THEN 0
    ELSE LineSum(items, k - 1) + items[k].price * items[k].quantity

\* C7: every persisted order's subtotal is the exact sum of its own line
\* items' price x quantity, rounded once to 2 decimals.
SubtotalIsRoundedSum ==
    \A o \in OrderIds :
        order[o].subtotal = Round2(LineSum(order[o].items, Len(order[o].items)))

\* A two-line order whose exact sum is not a whole number of cents.
SubtotalWasRounded ==
    \E o \in OrderIds :
        /\ Len(order[o].items) = 2
        /\ LineSum(order[o].items, 2) % 10 # 0
        /\ order[o].subtotal # LineSum(order[o].items, 2)

\* Exact sum of the current product price x requested quantity over the
\* first k lines of a request.
RECURSIVE CatalogueSum(_, _)
CatalogueSum(lines, k) ==
    IF k = 0 THEN 0
    ELSE CatalogueSum(lines, k - 1)
         + product[ObjectId(lines[k].product_id)].price * lines[k].quantity

\* C8: every persisted order is determined by the request's customer,
\* shipping and (product_id, quantity) pairs and by the product records:
\* each line carries the product's title, price and image, subtotal and
\* total are computed from the product prices, status is "processing".  No
\* client-supplied title, price, image, subtotal, total or status enters,
\* so two requests that differ only in those persist identical orders.
OrderFromCatalogueOnly ==
    \A o \in OrderIds :
        LET ask == placed[o]
            doc == order[o]
            n == Len(ask.items)
        IN  /\ Len(doc.items) = n
            /\ \A j \in 1..n :
                  LET p == product[ObjectId(ask.items[j].product_id)]
                  IN  /\ doc.items[j].title = p.title
                      /\ doc.items[j].price = p.price
                      /\ doc.items[j].image = p.image
                      /\ doc.items[j].quantity = ask.items[j].quantity
                      /\ ObjectId(doc.items[j].product_id) = ObjectId(ask.items[j].product_id)
            /\ doc.subtotal = Round2(CatalogueSum(ask.items, n))
            /\ doc.total = Round2(CatalogueSum(ask.items, n) + ask.shipping)
            /\ doc.customer_name = ask.customer_name
            /\ doc.status = "processing"

\* An order was persisted from a request that claimed another price and
\* title for its line, another total and the status "delivered".
TamperedOrderPlaced ==
    \E o \in OrderIds :
        /\ placed[o].status = "delivered"
        /\ placed[o].total # order[o].total
        /\ placed[o].items[1].price # order[o].items[1].price
        /\ placed[o].items[1].title # order[o].items[1].title

\* C9: if create_document fails for a request that passed validation, the
\* request ends in a 500, the failing step and every earlier step of the
\* request leave products and orders unchanged, and the request holds no
\* order id.
PersistFailureWritesNothing ==
    [][\A r \in Reqs :
          /\ pc[r] = "persist" /\ pc'[r] = "done" =>
                /\ response'[r] = PersistenceError
                /\ response'[r].status = 500
                /\ order_id[r] = NoId
                /\ UNCHANGED store
          /\ StepOf(r) /\ pc[r] \in {"validate", "check"} => UNCHANGED store]_vars

\* A request whose lines all passed ended in a 500 with no order stored
\* and every product at the stock it was created with.
PersistFailed ==
    \E r \in Reqs :
        /\ pc[r] = "done" /\ response[r] = PersistenceError
        /\ idx[r] = MaxItems
        /\ Len(order) = 0
        /\ \A oid \in DOMAIN product : product[oid].stock_qty = stocked[oid]

\* Every product's stock is what it was created with minus the lines
\* decremented so far, order by order.
StockAccounted ==
    /\ \A o \in OrderIds : applied[o] <= Len(order[o].items)
    /\ \A r \in Reqs :
          pc[r] \in {"decrement", "reread"} => applied[order_id[r]] = dec_idx[r]
    /\ \A oid \in DOMAIN product :
          stocked[oid] - product[oid].stock_qty = SoldOf(oid, Len(order))

\* C10: if the decrement of the k-th line fails after the order was
\* persisted, the request ends in a 500 and nothing is rolled back: the
\* failing step changes neither collection, the order document stays as it
\* is in every later state, lines 1..k-1 stay decremented and lines k..n
\* are never decremented (the stock is accounted for by exactly the
\* lines 1..k-1 of that order, in every state).
DecrementFailureKeepsPartial ==
    /\ []StockAccounted
    /\ [][/\ \A o \in OrderIds : Len(order') >= o /\ order'[o] = order[o]
          /\ \A r \in Reqs :
                pc[r] = "decrement" /\ pc'[r] = "done" =>
                   /\ response'[r] = PersistenceError
                   /\ response'[r].status = 500
                   /\ UNCHANGED <<store, applied>>
                   /\ order[order_id[r]].items = sanitized_items[r]
                   /\ applied[order_id[r]] = dec_idx[r]
                   /\ dec_idx[r] < Len(sanitized_items[r])]_vars

\* An abandoned order: some but not all of its lines are decremented, no
\* handler is working on it, and a request ended in a 500.
PartialOrderLeft ==
    /\ InFlight = {}
    /\ \E r \in Reqs : response[r] = PersistenceError
    /\ \E o \in OrderIds :
          /\ applied[o] >= 1 /\ applied[o] < Len(order[o].items)
          /\ \E oid \in DOMAIN product :
                product[oid].stock_qty =
                    stocked[oid] - QtyFor(order[o].items, oid, applied[o])

\* C11: get_product answers 400 "Invalid product id" to a malformed
\* identifier, 404 "Product not found" to a well-formed identifier that names
\* no product, and the serialized product otherwise; whichever it answers,
\* the step leaves the product and order collections as they were.
ProductLookupAnswers ==
    [][fetched' # fetched =>
          /\ UNCHANGED store
          /\ LET s == fetched'.product_id
             IN  IF ~ObjectIdValid(s)
                 THEN /\ fetched'.status = 400
                      /\ fetched'.detail = "Invalid product id"
                      /\ fetched'.body = NoBody
                 ELSE IF ObjectId(s) \notin DOMAIN product
                 THEN /\ fetched'.status = 404
                      /\ fetched'.detail = "Product not found"
                      /\ fetched'.body = NoBody
                 ELSE /\ fetched'.status = 200
                      /\ fetched'.body.id = Str(ObjectId(s))
                      /\ fetched'.body = SerializeDoc(ObjectId(s), product[ObjectId(s)])]_vars

\* A well-formed identifier was looked up while it named no product, next
\* to a product with a placed order.
LookupMissed ==
    /\ fetched.status = 404
    /\ fetched.product_id = <<"lower", 2>>
    /\ DOMAIN product = {1}
    /\ Len(order) = 1

\* A lookup, by the identifier a create response returned, that found the
\* product: oid is that product.
FetchOfCreated(oid) ==
    /\ fetched' # fetched
    /\ fetched'.status = 200
    /\ oid \in 1..Len(created)
    /\ fetched'.product_id = created[oid].id

\* C12 as stated: a product fetched by the identifier its create response
\* returned has the same value in every field as that response.
FetchedAsCreated ==
    [][\A oid \in DOMAIN product :
          FetchOfCreated(oid) => fetched'.body = created[oid]]_vars

\* C12, amended: a product fetched by the identifier its create response
\* returned has the same value as that response in every field other than
\* stock_qty, and its stock_qty is the response's minus the units that
\* place-order requests took from the product since the response was read
\* (the same value when none did).
FetchedAsCreatedLessSold ==
    [][\A oid \in DOMAIN product :
          FetchOfCreated(oid) =>
             /\ [fetched'.body EXCEPT !.stock_qty = 0] =
                   [created[oid] EXCEPT !.stock_qty = 0]
             /\ fetched'.body.stock_qty =
                   created[oid].stock_qty - (SoldOf(oid, Len(order)) - sold_then[oid])]_vars

\* A product was created, ordered from after its create response, and then
\* fetched by the returned identifier: the fetch shows less stock.
FetchedAfterSale ==
    \E oid \in DOMAIN product :
       /\ oid \in 1..Len(created)
       /\ fetched.status = 200
       /\ fetched.product_id = created[oid].id
       /\ fetched.body = SerializeDoc(oid, product[oid])
       /\ SoldOf(oid, Len(order)) > sold_then[oid]
       /\ fetched.body.stock_qty < created[oid].stock_qty

\* C13: a persisted order document never changes: whatever step comes later
\* (a further request, a decrement, a product creation, of any handler),
\* the document keeps its place and every field of it, items with their
\* price/title/image snapshots, subtotal, shipping, total and status, keeps
\* its value.
OrderDocumentsImmutable ==
    [][/\ Len(order') >= Len(order)
       /\ \A o \in OrderIds :
             /\ order'[o].items = order[o].items
             /\ order'[o].subtotal = order[o].subtotal
             /\ order'[o].shipping = order[o].shipping
             /\ order'[o].total = order[o].total
             /\ order'[o].status = order[o].status
             /\ order'[o] = order[o]]_vars

\* A second order was placed and fully decremented after the first one was
\* persisted, and both handlers have returned.
SecondOrderPlaced ==
    /\ Len(order) = 2
    /\ InFlight = {}
    /\ \A o \in OrderIds : applied[o] = Len(order[o].items)
    /\ \A r \in Reqs : response[r] = Ok

\* C14: a step of a place-order request (any step that creates no product)
\* changes no field of any product other than stock_qty: price, title and
\* in_stock keep their values, also when stock_qty reaches 0; and a product
\* whose stock_qty it changes is referenced by a line item of the order the
\* stepping handler has persisted.
OrderChangesOnlyOrderedStock ==
    [][DOMAIN product' = DOMAIN product =>
          \A oid \in DOMAIN product :
             /\ product'[oid].price = product[oid].price
             /\ product'[oid].title = product[oid].title
             /\ product'[oid].in_stock = product[oid].in_stock
             /\ [product'[oid] EXCEPT !.stock_qty = 0] =
                   [product[oid] EXCEPT !.stock_qty = 0]
             /\ product'[oid] # product[oid] =>
                   \E r \in Reqs :
                      /\ pc[r] = "decrement"
                      /\ dec_idx'[r] = dec_idx[r] + 1
                      /\ \E k \in 1..Len(order[order_id[r]].items) :
                            LineOid(order[order_id[r]].items[k]) = oid]_vars

\* An accepted order took the last units of one product and referenced no
\* other: the first is at 0 and still flagged in_stock, the second has the
\* stock it was created with.
SoldOutStillFlagged ==
    \E oid \in DOMAIN product, other \in DOMAIN product :
       /\ oid # other
       /\ response[1] = Ok
       /\ stocked[oid] > 0
       /\ product[oid].stock_qty = 0
       /\ product[oid].in_stock
       /\ product[other].stock_qty = stocked[other]
       /\ \A k \in 1..Len(order[1].items) : LineOid(order[1].items[k]) = oid

\* C15 as stated: every persisted order has at least one line item and as
\* many as its request; its i-th line item carries the product identifier
\* string and the quantity (>= 1) of the i-th requested item.
OrderLinesAsRequested ==
    \A o \in OrderIds :
       /\ Len(order[o].items) >= 1
       /\ Len(order[o].items) = Len(placed[o].items)
       /\ \A i \in 1..Len(order[o].items) :
             /\ order[o].items[i].product_id = placed[o].items[i].product_id
             /\ order[o].items[i].quantity = placed[o].items[i].quantity
             /\ order[o].items[i].quantity >= 1

\* C15, amended: every persisted order has at least one line item and as
\* many as its request; its i-th line item carries the quantity (>= 1) of
\* the i-th requested item and names the same product, under the store's
\* rendering of the identifier (str of the parsed ObjectId), which is the
\* requested string whenever that was sent in lower case.
OrderLinesNameRequested ==
    \A o \in OrderIds :
       /\ Len(order[o].items) >= 1
       /\ Len(order[o].items) = Len(placed[o].items)
       /\ \A i \in 1..Len(order[o].items) :
             /\ ObjectIdValid(placed[o].items[i].product_id)
             /\ LineOid(order[o].items[i]) = ObjectId(placed[o].items[i].product_id)
             /\ order[o].items[i].product_id =
                   Str(ObjectId(placed[o].items[i].product_id))
             /\ placed[o].items[i].product_id[1] = "lower" =>
                   order[o].items[i].product_id = placed[o].items[i].product_id
             /\ order[o].items[i].quantity = placed[o].items[i].quantity
             /\ order[o].items[i].quantity >= 1

\* An order of two lines for two products, the first requested under an
\* upper-case identifier string and with another quantity than the second.
UpperCaseLinePlaced ==
    /\ Len(order) = 1
    /\ Len(order[1].items) = 2
    /\ placed[1].items[1].product_id = <<"upper", 1>>
    /\ placed[1].items[2].product_id = <<"lower", 2>>
    /\ placed[1].items[1].quantity = 2
    /\ placed[1].items[2].quantity = 1
    /\ response[1] = Ok

\* C16: with requests served one at a time and every store call succeeding,
\* once an order is accepted and its handler has returned, every product's
\* stock_qty is >= 0, also when several of its lines name the same product.
AcceptedOrderKeepsStock ==
    (\A r \in {1} : pc[r] = "done" /\ response[r] = Ok) =>
       \A oid \in DOMAIN product : product[oid].stock_qty >= 0

\* Units of product oid in all the lines of the first o persisted orders.
RECURSIVE OrderedOf(_, _)
OrderedOf(oid, o) ==
    IF o = 0 THEN 0
    ELSE OrderedOf(oid, o - 1) + QtyFor(order[o].items, oid, Len(order[o].items))

\* C17: with every store call succeeding, in every state where no request
\* is in flight, each product's initial stock_qty minus its current
\* stock_qty is the sum of the quantities of all the line items that name
\* it in all persisted orders, however the requests interleaved.
StockConserved ==
    InFlight = {} =>
       \A oid \in DOMAIN product :
          stocked[oid] - product[oid].stock_qty = OrderedOf(oid, Len(order))

\* Two requests that interleaved have both been answered 200, nothing is in
\* flight, and the product is oversold.
BothAcceptedQuiescent ==
    /\ InFlight = {}
    /\ Len(order) = 2
    /\ \A r \in Reqs : response[r] = Ok
    /\ \E oid \in DOMAIN product :
          /\ product[oid].stock_qty < 0
          /\ OrderedOf(oid, Len(order)) > stocked[oid]

=============================================================================
